---- MODULE Spec2Model ----
(***************************************************************************)
(* os_helper: the layered configuration resolver (get_config and            *)
(* valid_config_file), in its two copies: os_helper/config_utils.py (the    *)
(* one the package exports) and os_helper/main.py; and the duration texts   *)
(* (str2time and time2str), in their two copies: os_helper/misc_utils.py    *)
(* and os_helper/main.py; the temporary files and directories of           *)
(* os_helper/temp_utils.py and os_helper/main.py; and ProgressTask of       *)
(* os_helper/progress_bar.py.                                               *)
(*                                                                          *)
(* A state is a process: its environment (os.environ), the files on disk,   *)
(* the last call made with its arguments and its outcome, the temporary     *)
(* files it holds, its ProgressTask objects and the level of its root       *)
(* logger.                                                                  *)
(*                                                                          *)
(* Spec:        the process calls the resolver, one call after the other.   *)
(* SpecThreads: two threads call get_config; the merge of the env files     *)
(*              runs step by step.                                          *)
(* SpecTime:    the process calls str2time and time2str.                    *)
(* SpecTemp:    the process enters and leaves temporary_filename and        *)
(*              temporary_folder blocks.                                    *)
(* SpecProgress: two ProgressTask objects are run, each by its own caller,  *)
(*              thread step by thread step.                                 *)
(* SpecProgressFair: one ProgressTask object is run, and every started      *)
(*              thread keeps being scheduled.                               *)
(***************************************************************************)
EXTENDS Integers, Sequences, FiniteSets, TLC

VARIABLES
    fs,         \* the files on disk (never written by the resolver)
    environ,    \* os.environ of the process
    pc,         \* "idle": between calls; "done": a call has just ended
    call,       \* the arguments of the call that has just ended
    outcome,    \* how that call ended
    envBefore,  \* os.environ when that call started
    thread,     \* the calls of get_config that run in threads, step by step
    mergeLog,   \* the order in which the threads began and ended the merge
    tmpfs,      \* the temporary files and directories that exist
    ctx,        \* the temporary_filename / temporary_folder block in progress
    tasks,      \* the ProgressTask objects and the threads of their runs
    level       \* the level of the root logger

vars == <<fs, environ, pc, call, outcome, envBefore, thread, mergeLog,
          tmpfs, ctx, tasks, level>>

---------------------------------------------------------------------------
(* Bounds and the finite universes the inputs are drawn from.              *)

MaxKeys == 2

KeyNames == {"a", "b"}
FileKeys == {"a", "b", "x"}
EnvNames == {"A", "B", "a"}
ConfigTypes == {"API"}
Impls == {"config_utils", "main"}

ConfigDir == "dir"
MissingPath == "missing"
NoPath == "None"
BlankPath == " "
CandidatePaths == {"dir/a.yaml", "dir/b.json"}
FilePaths == CandidatePaths \cup {"dir/c.txt", "dir/d"}
Paths == {NoPath, BlankPath, ConfigDir, MissingPath} \cup FilePaths

EnvFilePaths == {".env1", ".env2", ".env3"}
EnvFileLists ==
    {<<>>, <<".env1">>, <<".env2">>, <<".env3">>,
     <<".env1", ".env2">>, <<".env2", ".env1">>}

KeyLists == UNION {[1..n -> KeyNames] : n \in 1..MaxKeys}

Range(s) == {s[i] : i \in DOMAIN s}

EmptyMap == [k \in {} |-> ""]

---------------------------------------------------------------------------
(* Strings: what the code does with them, on the strings of the model.     *)

\* str.upper()
Upper(k) ==
    CASE k = "a" -> "A"
      [] k = "b" -> "B"
      [] k = "x" -> "X"
      [] k = "json" -> "JSON"
      [] k = "yaml" -> "YAML"
      [] k = "yml" -> "YML"
      [] OTHER -> k

\* str.lower()
Lower(s) ==
    CASE s = "JSON" -> "json"
      [] s = "YAML" -> "yaml"
      [] s = "YML" -> "yml"
      [] s = "HR" -> "hr"
      [] OTHER -> s

\* `s in t` for two strings (the substring test). Among the extensions and
\* format names of the model, a string lies in another only when it is that
\* string or the empty string.
IsSubstring(s, t) == s = t \/ s = ""

\* string_utils.py emptystring(s): None, or nothing left after strip();
\* main.py emptystring(s): None, or of length 0
emptystring(impl, s) ==
    IF impl = "config_utils" THEN s \in {NoPath, "", BlankPath} ELSE s \in {NoPath, ""}

\* folder_name_ext(path)[2]: what follows the first dot of the basename
ExtOf(p) ==
    CASE p = "dir/a.yaml" -> "yaml"
      [] p = "dir/b.json" -> "json"
      [] p = "dir/c.txt" -> "txt"
      [] OTHER -> ""

\* what follows the last dot of the basename, and the number of its dots
LastExt(p) == ExtOf(p)
Dots(p) == IF ExtOf(p) = "" THEN 0 ELSE 1

\* the order of Python's string comparison on the paths of the model
PathOrder == <<"dir/a.yaml", "dir/b.json", "dir/c.txt", "dir/d">>
Rank(p) == CHOOSE i \in DOMAIN PathOrder : PathOrder[i] = p

---------------------------------------------------------------------------
(* The file system.                                                         *)

Contents ==
    {[kind |-> k, keys |-> {}] : k \in {"absent", "bad", "null"}}
    \cup {[kind |-> "map", keys |-> K] : K \in SUBSET FileKeys}

\* os.path.isfile
file_exists(p, w) ==
    \/ p \in FilePaths /\ w.files[p].kind # "absent"
    \/ p \in EnvFilePaths /\ w.envfiles[p].exists

\* os.path.isdir
dir_exists(p, w) == p = ConfigDir

\* the mapping a file parses to: every key of the file, its value tagged
\* with the file it comes from
Parsed(p, w) == [k \in w.files[p].keys |-> p]

---------------------------------------------------------------------------
(* How a call, or a helper inside it, ends.                                 *)

\* a helper returned None
RetNone == [kind |-> "none", val |-> EmptyMap, msg |-> <<>>, exc |-> ""]
\* a value was returned
Ret(m) == [kind |-> "return", val |-> m, msg |-> <<>>, exc |-> ""]
\* raise SystemExit((error_code, msg)); the message as its fragments
error(msg) == [kind |-> "exit", val |-> EmptyMap, msg |-> msg, exc |-> "SystemExit"]
\* any other exception left the call
Raise(e) == [kind |-> "raise", val |-> EmptyMap, msg |-> <<>>, exc |-> e]

\* check(condition, msg): error(f"{msg} (error code: {error_code})")
check(condition, msg) ==
    IF condition THEN RetNone ELSE error(msg \o <<" (error code: 1)">>)

\* The string valid_config_file of config_utils.py hands to checkfile in the
\* place of the path: its message, as fragments.
MsgPath(config_type, a_path) ==
    <<"Configuration file for ", config_type, " does not exist: ", a_path>>

\* checkfile(filepath, msg=""), filepath given as its fragments: a path of
\* the model is one fragment; the message string names a file iff fs.msgfile.
checkfile(filepath, w) ==
    check(IF Len(filepath) = 1 THEN file_exists(filepath[1], w) ELSE w.msgfile,
          <<"", " File '">> \o filepath \o <<"' does not exist.">>)

\* `if config:` on what a helper returned
Truthy(r) == r.kind = "return" /\ DOMAIN r.val # {}

Abrupt(r) == r.kind \in {"exit", "raise"}

\* json.load / yaml.load of an open file
Load(p, w, parser) ==
    CASE w.files[p].kind = "bad" ->
            Raise(IF parser = "json" THEN "JSONDecodeError" ELSE "YAMLError")
      [] w.files[p].kind = "null" -> RetNone
      [] OTHER -> Ret(Parsed(p, w))

---------------------------------------------------------------------------
(* valid_config_file, the two copies.                                       *)

\* `all(key in config for key in keys)`
AllKeysIn(keys, config) == \A i \in DOMAIN keys : keys[i] \in DOMAIN config

\* os_helper/config_utils.py
valid_config_file_config_utils(a_path, keys, config_type, w) ==
    LET chk == checkfile(MsgPath(config_type, a_path), w)
        ext == Lower(IF dir_exists(a_path, w) THEN "" ELSE ExtOf(a_path))
        config ==
            IF IsSubstring("json", ext) THEN Load(a_path, w, "json")
            ELSE IF \E e \in {"yaml", "yml"} : IsSubstring(e, ext)
                 THEN Load(a_path, w, "yaml")
                 ELSE RetNone
    IN  IF Abrupt(chk) THEN chk
        ELSE IF dir_exists(a_path, w) THEN Raise("IsADirectoryError")
        ELSE IF ~file_exists(a_path, w) THEN Raise("FileNotFoundError")
        ELSE IF Abrupt(config) THEN config
        ELSE IF config.kind = "none" THEN RetNone
        ELSE IF AllKeysIn(keys, config.val) THEN config
        ELSE RetNone

\* main.py's copy as it would be if it kept the requested keys only
valid_config_file_main_requestedOnly(a_path, keys, config_type, w) ==
    LET ext == Lower(ExtOf(a_path))
        jsons == {"json", Upper("json")}
        yamls == {"yaml", "yml", Upper("yaml"), Upper("yml")}
        j ==
            IF \E e \in jsons : IsSubstring(ext, e) THEN Load(a_path, w, "json")
            ELSE Load(a_path, w, "yaml")
    IN  IF ~file_exists(a_path, w) THEN RetNone
        ELSE IF ~\E e \in jsons \cup yamls : IsSubstring(ext, e) THEN RetNone
        ELSE IF Abrupt(j) THEN j
        ELSE IF j.kind = "none" THEN Raise("TypeError")
        ELSE IF AllKeysIn(keys, j.val) THEN Ret([k \in Range(keys) |-> j.val[k]])
        ELSE RetNone

\* os_helper/main.py
valid_config_file_main(a_path, keys, config_type, w) ==
    LET ext == Lower(ExtOf(a_path))
        jsons == {"json", Upper("json")}
        yamls == {"yaml", "yml", Upper("yaml"), Upper("yml")}
        j ==
            IF \E e \in jsons : IsSubstring(ext, e) THEN Load(a_path, w, "json")
            ELSE Load(a_path, w, "yaml")
    IN  IF ~file_exists(a_path, w) THEN RetNone
        ELSE IF ~\E e \in jsons \cup yamls : IsSubstring(ext, e) THEN RetNone
        ELSE IF Abrupt(j) THEN j
        ELSE IF j.kind = "none" THEN Raise("TypeError")
        ELSE IF AllKeysIn(keys, j.val) THEN j
        ELSE RetNone

valid_config_file(impl, a_path, keys, config_type, w) ==
    IF impl = "config_utils"
    THEN valid_config_file_config_utils(a_path, keys, config_type, w)
    ELSE valid_config_file_main(a_path, keys, config_type, w)

---------------------------------------------------------------------------
(* config_from_files: the explicit path.                                    *)

\* A glob pattern `*<tail>` as the extension it ends with and the number of
\* dots the tail holds.
Pattern(ext, dots) == [ext |-> ext, dots |-> dots]

\* config_utils.py: ["*.json", "*.yaml", "*.yml"], then f"*.{fmt.upper()}" of
\* each, which is "*.*.JSON", "*.*.YAML", "*.*.YML"
formats_config_utils ==
    <<Pattern("json", 1), Pattern("yaml", 1), Pattern("yml", 1),
      Pattern(Upper("json"), 2), Pattern(Upper("yaml"), 2), Pattern(Upper("yml"), 2)>>

\* main.py: [".json", ".yml", ".yaml"] and their upper-case forms, after "*"
formats_main ==
    <<Pattern("json", 1), Pattern("yml", 1), Pattern("yaml", 1),
      Pattern(Upper("json"), 1), Pattern(Upper("yml"), 1), Pattern(Upper("yaml"), 1)>>

\* the order in which the directory lists its entries (any order will do:
\* the code sorts)
ListingOrder == <<"dir/d", "dir/c.txt", "dir/b.json", "dir/a.yaml">>

\* glob.glob(join(path, fmt)): the entries of the directory the pattern
\* matches, in listing order
glob(path, fmt, w) ==
    SelectSeq(ListingOrder,
              LAMBDA p : /\ w.files[p].kind # "absent"
                         /\ LastExt(p) = fmt.ext
                         /\ Dots(p) >= fmt.dots)

RECURSIVE GlobAll(_, _, _, _)
GlobAll(path, formats, i, w) ==
    IF i > Len(formats) THEN <<>>
    ELSE glob(path, formats[i], w) \o GlobAll(path, formats, i + 1, w)

\* insert p into the sorted sequence s
RECURSIVE Insert(_, _)
Insert(p, s) ==
    IF s = <<>> THEN <<p>>
    ELSE IF Rank(p) <= Rank(Head(s)) THEN <<p>> \o s
    ELSE <<Head(s)>> \o Insert(p, Tail(s))

\* sorted(candidates)
RECURSIVE sorted(_)
sorted(s) == IF s = <<>> THEN <<>> ELSE Insert(Head(s), sorted(Tail(s)))

\* the candidates of a directory, in the order they are tested
Candidates(impl, path, w) ==
    sorted(GlobAll(path,
                   IF impl = "config_utils" THEN formats_config_utils ELSE formats_main,
                   1, w))

\* for candidate in candidates: return the first that validates
RECURSIVE FirstValid(_, _, _, _, _, _)
FirstValid(impl, candidates, i, keys, config_type, w) ==
    IF i > Len(candidates) THEN RetNone
    ELSE LET config == valid_config_file(impl, candidates[i], keys, config_type, w)
         IN  IF Abrupt(config) \/ Truthy(config) THEN config
             ELSE FirstValid(impl, candidates, i + 1, keys, config_type, w)

config_from_files(impl, path, keys, config_type, w) ==
    LET config ==
            IF file_exists(path, w)
            THEN valid_config_file(impl, path, keys, config_type, w)
            ELSE RetNone
    IN  IF Abrupt(config) \/ Truthy(config) THEN config
        ELSE IF dir_exists(path, w)
             THEN FirstValid(impl, Candidates(impl, path, w), 1, keys, config_type, w)
             ELSE RetNone

---------------------------------------------------------------------------
(* The env-file merge and the environment lookup.                           *)

\* load_dotenv as it would be with override=True
load_dotenv_override(env, env_file, w) ==
    [n \in DOMAIN env \cup w.envfiles[env_file].vars |->
        IF n \in w.envfiles[env_file].vars THEN env_file ELSE env[n]]

\* load_dotenv(env_file), override left at its default False: a variable the
\* environment already holds keeps its value
load_dotenv(env, env_file, w) ==
    [n \in DOMAIN env \cup w.envfiles[env_file].vars |->
        IF n \in DOMAIN env THEN env[n] ELSE env_file]

\* the merge as it would be if the list were walked from its end
RECURSIVE MergeEnvFiles_lastFirst(_, _, _, _)
MergeEnvFiles_lastFirst(env_files, i, env, w) ==
    IF i > Len(env_files) THEN env
    ELSE LET rest == MergeEnvFiles_lastFirst(env_files, i + 1, env, w)
         IN  IF file_exists(env_files[i], w)
             THEN load_dotenv(rest, env_files[i], w)
             ELSE rest

\* for env_file in env_files: if file_exists(env_file): load_dotenv(env_file)
RECURSIVE MergeEnvFiles(_, _, _, _)
MergeEnvFiles(env_files, i, env, w) ==
    IF i > Len(env_files) THEN env
    ELSE MergeEnvFiles(env_files, i + 1,
                       IF file_exists(env_files[i], w)
                       THEN load_dotenv(env, env_files[i], w)
                       ELSE env,
                       w)

\* config_utils.py with the lookup returning the whole environment once
\* every key is found
config_from_env_config_utils_wholeEnv(keys, env) ==
    LET missing_keys ==
            SelectSeq(keys, LAMBDA key : Upper(key) \notin DOMAIN env
                                         /\ key \notin DOMAIN env)
    IN  IF Len(missing_keys) = 0 THEN Ret(env) ELSE RetNone

\* config_utils.py: the upper-cased name first, then the name as given
config_from_env_config_utils(keys, env) ==
    LET missing_keys ==
            SelectSeq(keys, LAMBDA key : Upper(key) \notin DOMAIN env
                                         /\ key \notin DOMAIN env)
    IN  IF Len(missing_keys) = 0
        THEN Ret([key \in Range(keys) |->
                    IF Upper(key) \in DOMAIN env THEN env[Upper(key)] ELSE env[key]])
        ELSE RetNone

\* main.py: c = {k: os.environ[k.upper()] for k in keys if k.upper() in
\* os.environ}; return c if len(c) == len(keys) else None
config_from_env_main(keys, env) ==
    LET c == [k \in {key \in Range(keys) : Upper(key) \in DOMAIN env} |->
                env[Upper(k)]]
    IN  IF Cardinality(DOMAIN c) = Len(keys) THEN Ret(c) ELSE RetNone

config_from_env(impl, keys, env) ==
    IF impl = "config_utils"
    THEN config_from_env_config_utils(keys, env)
    ELSE config_from_env_main(keys, env)

---------------------------------------------------------------------------
(* get_config.                                                              *)

\* the message of the final error(...)
MissingMsg(impl, config_type) ==
    IF impl = "config_utils"
    THEN <<"Missing required keys for '", config_type,
           "' configuration in files, .env files, or environment variables.">>
    ELSE <<"Missing required keys for ", config_type,
           " configuration in JSON/YAML files, .env files, or environment variables.">>

\* steps 2 to 4 as they would be if a failure put the environment back
FromEnvironment_rollback(impl, keys, config_type, env_files, env, w) ==
    LET merged == MergeEnvFiles(env_files, 1, env, w)
        config == config_from_env(impl, keys, merged)
    IN  IF Truthy(config) THEN [out |-> config, env |-> merged]
        ELSE [out |-> error(MissingMsg(impl, config_type)), env |-> env]

\* Steps 2 to 4: merge the env files, look the keys up, fail
FromEnvironment(impl, keys, config_type, env_files, env, w) ==
    LET merged == MergeEnvFiles(env_files, 1, env, w)
        config == config_from_env(impl, keys, merged)
    IN  [out |-> IF Truthy(config) THEN config
                 ELSE error(MissingMsg(impl, config_type)),
         env |-> merged]

\* get_config(keys, config_type, path, env_files) called with os.environ =
\* env: how it ends, and os.environ afterwards
get_config(impl, keys, config_type, path, env_files, env, w) ==
    IF emptystring(impl, path)
    THEN FromEnvironment(impl, keys, config_type, env_files, env, w)
    ELSE LET config == config_from_files(impl, path, keys, config_type, w)
         IN  IF Abrupt(config) \/ Truthy(config)
             THEN [out |-> config, env |-> env]
             ELSE FromEnvironment(impl, keys, config_type, env_files, env, w)

---------------------------------------------------------------------------
(* The process.                                                             *)

NoCall ==
    [op |-> "none", impl |-> "", keys |-> <<>>, config_type |-> "",
     path |-> NoPath, env_files |-> <<>>]

\* the threads of the process that call get_config
Threads == {"T1", "T2"}

\* a thread that has not called yet
NoThread ==
    [at |-> "idle", impl |-> "", keys |-> <<>>, config_type |-> "",
     env_files |-> <<>>, file |-> 0, var |-> 0, out |-> RetNone]

NoThreads == [t \in Threads |-> NoThread]

\* No temporary_filename / temporary_folder block has been entered yet.
NoCtx ==
    [op |-> "none", impl |-> "none", delete |-> FALSE, pos |-> "out",
     name |-> 0, how |-> "none", made |-> {}]

\* The levels the root logger takes: logging's default, and the level
\* _run_task sets to silence every record (logging.CRITICAL + 1).
WARNING == "WARNING"
CRITICAL_plus_1 == "CRITICAL+1"

Objects == {"A", "B"}

\* ProgressTask.__init__: the attributes it stores (task_complete is not
\* one of them: `has` says whether the attribute exists; a read of
\* task_complete while has is false raises AttributeError), and the threads
\* of a run, none yet.  progress_threshold is in hundredths.  todo is the
\* number of times the program is still going to run the object, and runs
\* the number of times it has.
ProgressTask(total_steps, progress_threshold, todo) ==
    [total_steps |-> total_steps, progress_threshold |-> progress_threshold,
     has |-> FALSE, task_complete |-> FALSE,
     todo |-> todo, runs |-> 0, main |-> "idle",
     progress |-> "none", i |-> 0, n |-> 0,
     task |-> "none", logging_level |-> "none", raised |-> FALSE]

NoTasks == [o \in Objects |-> ProgressTask(1, 90, 0)]

\* What the two candidate files of the directory may hold: nothing (the
\* file is absent), text that does not parse, the document null, a mapping.
\* dir/c.txt and dir/d hold a mapping with the keys a and b.
CandidateContents ==
    {[kind |-> "absent", keys |-> {}], [kind |-> "bad", keys |-> {}],
     [kind |-> "null", keys |-> {}],
     [kind |-> "map", keys |-> {"a"}], [kind |-> "map", keys |-> {"a", "b", "x"}]}

Files ==
    {[p \in FilePaths |->
        CASE p = "dir/a.yaml" -> y
          [] p = "dir/b.json" -> j
          [] OTHER -> [kind |-> "map", keys |-> {"a", "b"}]] :
     y \in CandidateContents, j \in CandidateContents}

\* .env1 sets A and B, .env2 sets A and a, .env3 does not exist
EnvFiles ==
    [p \in EnvFilePaths |->
        CASE p = ".env1" -> [exists |-> TRUE, vars |-> {"A", "B"}]
          [] p = ".env2" -> [exists |-> TRUE, vars |-> {"A", "a"}]
          [] OTHER -> [exists |-> FALSE, vars |-> {}]]

Worlds ==
    {[files |-> f, envfiles |-> EnvFiles, msgfile |-> m] :
     f \in Files, m \in BOOLEAN}

\* the environment the process starts with
InitEnvs == {[n \in N |-> "preset"] : N \in {{}, {"A"}, {"A", "B"}}}

TypeOK ==
    /\ fs \in Worlds
    /\ pc \in {"idle", "done"}
    /\ DOMAIN environ \subseteq EnvNames
    /\ DOMAIN envBefore \subseteq EnvNames
    /\ outcome.kind \in {"none", "return", "exit", "raise"}

Init ==
    /\ fs \in Worlds
    /\ environ \in InitEnvs
    /\ pc = "idle"
    /\ call = NoCall
    /\ outcome = RetNone
    /\ envBefore = environ
    /\ thread = NoThreads
    /\ mergeLog = <<>>
    /\ tmpfs = {}
    /\ ctx = NoCtx
    /\ tasks = NoTasks
    /\ level = WARNING

\* the process calls get_config; the call runs to its end
CallGetConfig ==
    /\ pc = "idle"
    /\ \E impl \in Impls, keys \in KeyLists, config_type \in ConfigTypes,
          path \in Paths, env_files \in EnvFileLists :
          LET r == get_config(impl, keys, config_type, path, env_files, environ, fs)
          IN  /\ call' = [op |-> "get_config", impl |-> impl, keys |-> keys,
                          config_type |-> config_type, path |-> path,
                          env_files |-> env_files]
              /\ outcome' = r.out
              /\ environ' = r.env
    /\ envBefore' = environ
    /\ pc' = "done"
    /\ UNCHANGED <<fs, thread, mergeLog,
                 tmpfs, ctx, tasks, level>>

\* the process calls valid_config_file on a path
CallValidConfigFile ==
    /\ pc = "idle"
    /\ \E impl \in Impls, keys \in KeyLists, config_type \in ConfigTypes,
          path \in Paths \ {NoPath} :
          /\ call' = [op |-> "valid_config_file", impl |-> impl, keys |-> keys,
                      config_type |-> config_type, path |-> path,
                      env_files |-> <<>>]
          /\ outcome' = valid_config_file(impl, path, keys, config_type, fs)
    /\ envBefore' = environ
    /\ pc' = "done"
    /\ UNCHANGED <<fs, environ, thread, mergeLog,
                 tmpfs, ctx, tasks, level>>

\* the caller takes the result (or catches the exception) and goes on
Continue ==
    /\ pc = "done"
    /\ pc' = "idle"
    /\ call' = NoCall
    /\ outcome' = RetNone
    /\ envBefore' = environ
    /\ UNCHANGED <<fs, environ, thread, mergeLog,
                 tmpfs, ctx, tasks, level>>

Next == CallGetConfig \/ CallValidConfigFile \/ Continue

Spec == Init /\ [][Next]_vars

---------------------------------------------------------------------------
(* Properties of the configuration resolver.                                *)

\* a call of the given operation has just ended
Ended(op) == pc = "done" /\ call.op = op

\* the requested key names
Requested == Range(call.keys)

\* A candidate is valid, in the words of the specification: it parses under
\* a supported format and its mapping holds every requested key.
Validates(p, keys) ==
    /\ p \in CandidatePaths
    /\ fs.files[p].kind = "map"
    /\ Range(keys) \subseteq fs.files[p].keys

\* the call ended with SystemExit and the message names the label
ExitNamesLabel ==
    /\ outcome.kind = "exit"
    /\ \E i \in DOMAIN outcome.msg : outcome.msg[i] = call.config_type

\* the returned mapping holds no value of a configuration file: the
\* environment supplied it
ReturnedFromEnv ==
    /\ outcome.kind = "return"
    /\ \A k \in DOMAIN outcome.val : outcome.val[k] \notin FilePaths

\* the call went past the explicit path: it merged the env files and looked
\* the keys up in the environment
ReachedEnvironment ==
    \/ ReturnedFromEnv
    \/ outcome = error(MissingMsg(call.impl, call.config_type))

\* C1: every call of get_config with a non-empty key list either returns a
\* mapping that holds every requested key or ends with SystemExit whose
\* message names the config_type label; it never ends any other way.
C1_AllKeysOrSystemExit ==
    Ended("get_config") =>
        \/ outcome.kind = "return" /\ Requested \subseteq DOMAIN outcome.val
        \/ ExitNamesLabel

\* C2: when path names an existing regular file that parses under its
\* extension and holds every requested key, get_config returns that file's
\* values for the requested keys, whatever the env files and the environment
\* define, and leaves the process environment as it was.
C2_ValidFileShortCircuits ==
    (Ended("get_config") /\ Validates(call.path, call.keys)) =>
        /\ outcome.kind = "return"
        /\ \A k \in Requested : k \in DOMAIN outcome.val /\ outcome.val[k] = call.path
        /\ environ = envBefore

\* the path is not empty and yields no valid candidate
NoValidCandidate ==
    /\ call.path \in {ConfigDir, MissingPath}
    /\ \A p \in CandidatePaths : ~Validates(p, call.keys)

\* C3: when path is non-empty but yields no valid candidate, get_config does
\* not fail there: it ends, and leaves the environment, as the same call
\* made with no path does.
C3_NoCandidateFallsThrough ==
    (Ended("get_config") /\ NoValidCandidate) =>
        [out |-> outcome, env |-> environ]
            = get_config(call.impl, call.keys, call.config_type, NoPath,
                         call.env_files, envBefore, fs)

\* the file at the path is no valid configuration for the keys: it does not
\* exist, its extension is not json, yaml or yml, it does not parse, or it
\* lacks a requested key
Invalid(p, keys) ==
    \/ ~file_exists(p, fs)
    \/ Lower(ExtOf(p)) \notin {"json", "yaml", "yml"}
    \/ fs.files[p].kind # "map"
    \/ ~(Range(keys) \subseteq fs.files[p].keys)

\* C4: valid_config_file fails closed: it never raises and never ends the
\* process; it returns None for an invalid file and the parsed mapping only
\* when every requested key is present.
C4_ValidatorFailsClosed ==
    Ended("valid_config_file") =>
        /\ outcome.kind \in {"none", "return"}
        /\ Invalid(call.path, call.keys) => outcome.kind = "none"
        /\ outcome.kind = "return" =>
              /\ outcome.val = Parsed(call.path, fs)
              /\ Requested \subseteq DOMAIN outcome.val

\* the first candidate of the directory, in the order of the paths, that
\* validates
FirstValidCandidate ==
    CHOOSE p \in CandidatePaths :
        /\ Validates(p, call.keys)
        /\ \A q \in CandidatePaths : Validates(q, call.keys) => Rank(p) <= Rank(q)

\* C5: when path names a directory, get_config returns the mapping of the
\* first of its json/yaml/yml children, in lexicographic order of the
\* paths, that validates.
C5_FirstCandidateInOrder ==
    (/\ Ended("get_config")
     /\ call.path = ConfigDir
     /\ \E p \in CandidatePaths : Validates(p, call.keys)) =>
        outcome = Ret(Parsed(FirstValidCandidate, fs))

\* every requested key is in the environment under its upper-cased name
AllUpperFound == \A k \in Requested : Upper(k) \in DOMAIN environ

\* C6: when no file source succeeds, each requested key is looked up in the
\* environment, after the env-file merge, under its upper-cased name; if
\* every key is found, get_config returns the mapping from the requested
\* names, as given, to the values the environment holds.
C6_UpperCasedLookup ==
    (Ended("get_config") /\ ReachedEnvironment /\ AllUpperFound) =>
        outcome = Ret([k \in Requested |-> environ[Upper(k)]])

Defining(n) ==
    {i \in DOMAIN call.env_files :
        /\ fs.envfiles[call.env_files[i]].exists
        /\ n \in fs.envfiles[call.env_files[i]].vars}

\* the variables two different files of env_files both define and the
\* environment did not hold before the call
Contested ==
    {n \in EnvNames \ DOMAIN envBefore :
        \E i, j \in Defining(n) : call.env_files[i] # call.env_files[j]}

First(I) == CHOOSE i \in I : \A j \in I : i <= j
Last(I) == CHOOSE i \in I : \A j \in I : j <= i

\* C8, as claimed: when two files of env_files both define a variable that
\* was not set before the call, the later file overwrites the earlier one:
\* the environment, and the returned mapping, hold the later file's value.
C8_LaterFileWins ==
    (Ended("get_config") /\ ReachedEnvironment) =>
        \A n \in Contested :
            /\ environ[n] = call.env_files[Last(Defining(n))]
            /\ ReturnedFromEnv =>
                  \A k \in Requested :
                      Upper(k) = n => outcome.val[k] = call.env_files[Last(Defining(n))]

\* C8, amended: when two files of env_files both define a variable that was
\* not set before the call, the earlier file wins: the environment, and the
\* returned mapping, hold the value of the first file of the list that
\* defines it.
C8_EarlierFileWins ==
    (Ended("get_config") /\ ReachedEnvironment) =>
        \A n \in Contested :
            /\ environ[n] = call.env_files[First(Defining(n))]
            /\ ReturnedFromEnv =>
                  \A k \in Requested :
                      Upper(k) = n => outcome.val[k] = call.env_files[First(Defining(n))]

\* two env files define a requested variable, unset before the call, and
\* the call returned the first file's value for it
C8_Witness ==
    /\ Ended("get_config")
    /\ ReturnedFromEnv
    /\ \E n \in Contested, k \in Requested :
          /\ Upper(k) = n
          /\ First(Defining(n)) # Last(Defining(n))
          /\ outcome.val[k] = call.env_files[First(Defining(n))]
          /\ environ[n] = call.env_files[First(Defining(n))]

\* C9, as claimed: the mapping get_config returns has exactly the requested
\* key names as its keys, whichever source supplied the values.
C9_ExactlyRequestedKeys ==
    (Ended("get_config") /\ outcome.kind = "return") =>
        DOMAIN outcome.val = Requested

\* C9, amended: the mapping get_config returns holds every requested key;
\* its keys are exactly the requested names when the environment supplied
\* the values, and it is the whole parsed mapping of the file, the extra
\* keys of the file included, when a configuration file supplied them.
C9_RequestedKeysOrWholeFile ==
    (Ended("get_config") /\ outcome.kind = "return") =>
        /\ Requested \subseteq DOMAIN outcome.val
        /\ ReturnedFromEnv => DOMAIN outcome.val = Requested
        /\ ~ReturnedFromEnv =>
              \E p \in FilePaths :
                  /\ file_exists(p, fs)
                  /\ call.path \in {p, ConfigDir}
                  /\ outcome.val = Parsed(p, fs)

\* a file supplied the mapping and the mapping holds a key nobody requested
C9_Witness ==
    /\ Ended("get_config")
    /\ outcome.kind = "return"
    /\ ~ReturnedFromEnv
    /\ \E k \in DOMAIN outcome.val : k \notin Requested

\* C10: the outcome of get_config depends on the requested keys only as a
\* set: a key list with the same keys, repeated or in another order, ends the
\* same way, with the same mapping and the same environment.
C10_KeysAsSet ==
    Ended("get_config") =>
        \A keys2 \in KeyLists :
            Range(keys2) = Requested =>
                get_config(call.impl, keys2, call.config_type, call.path,
                           call.env_files, envBefore, fs)
                    = [out |-> outcome, env |-> environ]

---------------------------------------------------------------------------
(* What a call of get_config leaves behind for the calls after it.          *)

\* The variables the process started with. The process starts with the
\* variables of InitEnvs, whose value is "preset"; the merge writes the
\* name of an env file.
StartEnv ==
    [n \in {m \in DOMAIN envBefore : envBefore[m] = "preset"} |-> "preset"]

\* the variables the calls made earlier in the process added to os.environ
Added == DOMAIN envBefore \ DOMAIN StartEnv

\* the same call, made first in a process started in the same environment
InFreshProcess ==
    get_config(call.impl, call.keys, call.config_type, call.path,
               call.env_files, StartEnv, fs)

\* C12, as claimed: get_config retains no state across calls: with the same
\* arguments, the same files and the same initial process environment a call
\* returns the same result whether or not other calls of get_config were
\* made earlier in the process.
C12_EarlierCallsInvisible ==
    Ended("get_config") => outcome = InFreshProcess.out

\* C12, amended: get_config keeps no state of its own, but the variables an
\* earlier call merged stay in os.environ: a call returns the same result as
\* in a fresh process whenever the earlier calls added none of the variables
\* it looks up (the requested names, upper-cased and as given).
C12_EarlierCallsSeenThroughEnviron ==
    (Ended("get_config")
     /\ \A k \in Requested : Upper(k) \notin Added /\ k \notin Added) =>
        outcome = InFreshProcess.out

\* earlier calls added variables, none of them looked up by this call, and
\* this call returned the values of the environment
C12_Witness ==
    /\ Ended("get_config")
    /\ Added # {}
    /\ \A k \in Requested : Upper(k) \notin Added /\ k \notin Added
    /\ ReturnedFromEnv
    /\ outcome = InFreshProcess.out

---------------------------------------------------------------------------
(* get_config called from two threads of one process. The threads share     *)
(* os.environ; nothing in get_config takes a lock. load_dotenv walks the    *)
(* variables of the file and, for each of them, tests whether os.environ    *)
(* holds it and then sets it: two steps, and the other thread can run       *)
(* between them. The threads call with path left at None.                   *)

\* the names a file defines, in the order of its lines
EnvNameOrder == <<"A", "B", "a">>

dotenv_values(env_file, w) ==
    SelectSeq(EnvNameOrder, LAMBDA n : n \in w.envfiles[env_file].vars)

\* load_dotenv's test as it would be with override=True
dotenv_skips_override(env, k) == FALSE

\* load_dotenv's test, override left at False: a variable the environment
\* holds is skipped
dotenv_skips(env, k) == k \in DOMAIN env

ThreadKeyLists == {<<k>> : k \in KeyNames}

\* the files on disk while the threads run
ThreadWorld ==
    CHOOSE w \in Worlds :
        /\ ~w.msgfile
        /\ \A p \in CandidatePaths : w.files[p].kind = "absent"

\* for env_file in env_files: if file_exists(env_file): the position at the
\* first variable of the next file that exists, from file i on; the lookup
\* when no file is left
RECURSIVE NextFile(_, _)
NextFile(r, i) ==
    IF i > Len(r.env_files) THEN [r EXCEPT !.at = "lookup", !.file = 0, !.var = 0]
    ELSE IF file_exists(r.env_files[i], ThreadWorld)
            /\ Len(dotenv_values(r.env_files[i], ThreadWorld)) > 0
         THEN [r EXCEPT !.at = "test", !.file = i, !.var = 1]
         ELSE NextFile(r, i + 1)

\* the position after the variable at hand
NextVar(r) ==
    IF r.var < Len(dotenv_values(r.env_files[r.file], ThreadWorld))
    THEN [r EXCEPT !.at = "test", !.var = r.var + 1]
    ELSE NextFile(r, r.file + 1)

\* the variable at hand
VarAt(r) == dotenv_values(r.env_files[r.file], ThreadWorld)[r.var]

\* the thread moves to position r; the log gets the end of its merge
MoveTo(t, r) ==
    /\ thread' = [thread EXCEPT ![t] = r]
    /\ mergeLog' = IF r.at = "lookup" THEN Append(mergeLog, <<t, "end">>)
                   ELSE mergeLog

\* the thread calls get_config and reaches step 2
ThreadCall(t) ==
    /\ thread[t].at = "idle"
    /\ \E impl \in Impls, keys \in ThreadKeyLists, config_type \in ConfigTypes,
          env_files \in EnvFileLists :
          LET r == NextFile([NoThread EXCEPT !.impl = impl, !.keys = keys,
                                             !.config_type = config_type,
                                             !.env_files = env_files], 1)
          IN  /\ thread' = [thread EXCEPT ![t] = r]
              /\ mergeLog' = IF r.at = "lookup"
                             THEN mergeLog \o <<<<t, "begin">>, <<t, "end">>>>
                             ELSE Append(mergeLog, <<t, "begin">>)
    /\ UNCHANGED <<fs, environ, pc, call, outcome, envBefore,
                 tmpfs, ctx, tasks, level>>

\* load_dotenv: if k in os.environ and not override: continue
ThreadTest(t) ==
    /\ thread[t].at = "test"
    /\ IF dotenv_skips(environ, VarAt(thread[t]))
       THEN MoveTo(t, NextVar(thread[t]))
       ELSE MoveTo(t, [thread[t] EXCEPT !.at = "write"])
    /\ UNCHANGED <<fs, environ, pc, call, outcome, envBefore,
                 tmpfs, ctx, tasks, level>>

\* load_dotenv: os.environ[k] = v
ThreadWrite(t) ==
    /\ thread[t].at = "write"
    /\ environ' =
          [n \in DOMAIN environ \cup {VarAt(thread[t])} |->
              IF n = VarAt(thread[t]) THEN thread[t].env_files[thread[t].file]
              ELSE environ[n]]
    /\ MoveTo(t, NextVar(thread[t]))
    /\ UNCHANGED <<fs, pc, call, outcome, envBefore,
                 tmpfs, ctx, tasks, level>>

\* steps 3 and 4: config_from_env(keys), return or error
ThreadLookup(t) ==
    /\ thread[t].at = "lookup"
    /\ LET r == thread[t]
           config == config_from_env(r.impl, r.keys, environ)
       IN  thread' = [thread EXCEPT ![t] =
                        [r EXCEPT !.at = "done",
                                  !.out = IF Truthy(config) THEN config
                                          ELSE error(MissingMsg(r.impl, r.config_type))]]
    /\ UNCHANGED <<fs, environ, pc, call, outcome, envBefore, mergeLog,
                 tmpfs, ctx, tasks, level>>

ThreadsInit ==
    /\ fs = ThreadWorld
    /\ environ \in InitEnvs
    /\ pc = "idle"
    /\ call = NoCall
    /\ outcome = RetNone
    /\ envBefore = environ
    /\ thread = NoThreads
    /\ mergeLog = <<>>
    /\ tmpfs = {}
    /\ ctx = NoCtx
    /\ tasks = NoTasks
    /\ level = WARNING

ThreadsNext ==
    \E t \in Threads :
        ThreadCall(t) \/ ThreadTest(t) \/ ThreadWrite(t) \/ ThreadLookup(t)

SpecThreads == ThreadsInit /\ [][ThreadsNext]_vars

\* both calls have ended
BothDone == \A t \in Threads : thread[t].at = "done"

\* the files of the thread's env_files that exist and define n, by index
ThreadDefining(t, n) ==
    {i \in DOMAIN thread[t].env_files :
        /\ fs.envfiles[thread[t].env_files[i]].exists
        /\ n \in fs.envfiles[thread[t].env_files[i]].vars}

\* the value the thread's merge gives n
ThreadValue(t, n) == thread[t].env_files[First(ThreadDefining(t, n))]

\* the keys the claim is about: not set beforehand, and defined by env files
\* of both calls, which name different files
RacedKeys ==
    {n \in EnvNames \ DOMAIN envBefore :
        /\ \A t \in Threads : ThreadDefining(t, n) # {}
        /\ Range(thread["T1"].env_files) \cap Range(thread["T2"].env_files) = {}}

\* where the log holds the event
LogPos(t, e) == CHOOSE i \in DOMAIN mergeLog : mergeLog[i] = <<t, e>>

\* the thread whose merge ended last
RanLast == CHOOSE t \in Threads : \A u \in Threads : LogPos(u, "end") <= LogPos(t, "end")

\* the merge of t ended before the merge of u began
MergedBefore(t, u) == LogPos(t, "end") < LogPos(u, "begin")

\* C11, as claimed: when two calls of get_config run concurrently with
\* different env files that define the same key, not set beforehand, the
\* last writer wins: after both calls the environment holds for that key the
\* value of the merge that ran last.
C11_LastMergeWins ==
    BothDone => \A n \in RacedKeys : environ[n] = ThreadValue(RanLast, n)

\* C11, amended: the merges are not locked and a merge sets a key only if
\* the environment does not hold it when the merge tests it: after both
\* calls the environment holds the value of one of the two merges, and when
\* one merge ended before the other began it is the value of the merge that
\* ran first.
C11_FirstMergeWinsUnlessOverlap ==
    BothDone =>
        \A n \in RacedKeys :
            /\ \E t \in Threads : environ[n] = ThreadValue(t, n)
            /\ \A t, u \in Threads :
                  MergedBefore(t, u) => environ[n] = ThreadValue(t, n)

\* one merge ran wholly before the other, both define the key, and the
\* environment holds the first merge's value
C11_Witness ==
    /\ BothDone
    /\ \E n \in RacedKeys, t, u \in Threads :
          /\ MergedBefore(t, u)
          /\ environ[n] = ThreadValue(t, n)
          /\ environ[n] # ThreadValue(u, n)

\* the merges overlapped and the environment holds the value of the merge
\* that began last
LostUpdate ==
    /\ BothDone
    /\ \E n \in RacedKeys, t, u \in Threads :
          /\ LogPos(t, "begin") < LogPos(u, "begin")
          /\ ~MergedBefore(t, u)
          /\ environ[n] = ThreadValue(u, n)
          /\ environ[n] # ThreadValue(t, n)

---------------------------------------------------------------------------
(* Durations as text: str2time and time2str, in their two copies            *)
(* (os_helper/misc_utils.py, the one the package exports, and               *)
(* os_helper/main.py).                                                      *)
(*                                                                          *)
(* A text is the sequence of its tokens: a number literal, a word (a run of *)
(* letters), a blank, a colon, a minus sign. A number, in a literal and as  *)
(* a count of seconds, is held in tenths: the literal 1.5 is 15, and the    *)
(* float 5400.0 is 54000.                                                   *)

Num(n) == [t |-> "num", n |-> n, w |-> ""]
Word(w) == [t |-> "word", n |-> 0, w |-> w]
SP == [t |-> "sp", n |-> 0, w |-> " "]
Colon == [t |-> "punct", n |-> 0, w |-> ":"]
Minus == [t |-> "punct", n |-> 0, w |-> "-"]

\* str.lower() on a text
LowerText(s) ==
    [i \in DOMAIN s |-> IF s[i].t = "word" THEN Word(Lower(s[i].w)) ELSE s[i]]

\* str.strip()
RECURSIVE LStrip(_)
LStrip(s) == IF Len(s) > 0 /\ s[1] = SP THEN LStrip(Tail(s)) ELSE s

RECURSIVE RStrip(_)
RStrip(s) ==
    IF Len(s) > 0 /\ s[Len(s)] = SP THEN RStrip(SubSeq(s, 1, Len(s) - 1)) ELSE s

Strip(s) == RStrip(LStrip(s))

\* str.split(":")
RECURSIVE Split(_)
Split(s) ==
    IF \A i \in DOMAIN s : s[i] # Colon THEN <<s>>
    ELSE LET i == CHOOSE k \in DOMAIN s :
                      s[k] = Colon /\ \A j \in 1..(k - 1) : s[j] # Colon
         IN  <<SubSeq(s, 1, i - 1)>> \o Split(SubSeq(s, i + 1, Len(s)))

\* float(s): the blanks around are dropped; a number literal, with or
\* without a minus sign, is a float; anything else raises ValueError
IsFloat(s) ==
    \/ Len(Strip(s)) = 1 /\ Strip(s)[1].t = "num"
    \/ Len(Strip(s)) = 2 /\ Strip(s)[1] = Minus /\ Strip(s)[2].t = "num"

Float(s) ==
    IF Len(Strip(s)) = 1 THEN Strip(s)[1].n ELSE 0 - Strip(s)[2].n

\* a float returned, in tenths
RetFloat(x) == [kind |-> "return", val |-> x, msg |-> <<>>, exc |-> ""]

\* logging.error(msg) and then return 0.0: the caller gets 0.0, the message
\* goes to the log
LoggedZero(msg) == [kind |-> "return", val |-> 0, msg |-> msg, exc |-> ""]

\* A regular expression (\d+(\.\d+)?)\s*(w1|w2|...) tried at token i: the
\* number literal at i, blanks or none, one of the words; with \b after the
\* word, no letter or digit may follow it. The position of the word, or 0.
MatchEnd(s, i, words, boundary) ==
    IF s[i].t # "num" \/ \A j \in (i + 1)..Len(s) : s[j] = SP THEN 0
    ELSE LET j == CHOOSE k \in (i + 1)..Len(s) :
                      s[k] # SP /\ \A l \in (i + 1)..(k - 1) : s[l] = SP
         IN  IF /\ s[j].t = "word"
                /\ s[j].w \in words
                /\ boundary => (j = Len(s) \/ s[j + 1].t \notin {"num", "word"})
             THEN j ELSE 0

\* the positions where the expression matches
Matches(s, words, boundary) ==
    {i \in DOMAIN s : MatchEnd(s, i, words, boundary) > 0}

\* re.search: the leftmost match, 0 when there is none
Search(s, words, boundary) ==
    LET m == Matches(s, words, boundary)
    IN  IF m = {} THEN 0 ELSE CHOOSE i \in m : \A j \in m : i <= j

\* re.sub(pattern, "", s, count=1).strip(): the match at i taken out
RemoveAt(s, i, words, boundary) ==
    Strip(SubSeq(s, 1, i - 1)
          \o SubSeq(s, MatchEnd(s, i, words, boundary) + 1, Len(s)))

\* the colon dialect as it would be if two parts were read as H:M
ColonSeconds_hoursMinutes(parts) ==
    IF Len(parts) = 3
    THEN Float(parts[1]) * 3600 + Float(parts[2]) * 60 + Float(parts[3])
    ELSE Float(parts[1]) * 3600 + Float(parts[2]) * 60

\* H:M:S and M:S, both copies: the parts are floats, in tenths; the result
\* is in tenths
ColonSeconds(parts) ==
    IF Len(parts) = 3
    THEN Float(parts[1]) * 3600 + Float(parts[2]) * 60 + Float(parts[3])
    ELSE Float(parts[1]) * 60 + Float(parts[2])

\* misc_utils.py: time_units, each group with its spellings in the order
\* the loop tries them
time_units ==
    <<[units |-> <<"days", "day", "d">>, multiplier |-> 86400],
      [units |-> <<"hours", "hour", "hrs", "hr", "h">>, multiplier |-> 3600],
      [units |-> <<"minutes", "minute", "mins", "min", "m">>, multiplier |-> 60],
      [units |-> <<"seconds", "second", "secs", "sec", "s">>, multiplier |-> 1]>>

\* misc_utils.py: for unit in units: search (\d+(?:\.\d+)?)\s*{unit}\b in
\* remaining; on a match add value * multiplier and take the match out
RECURSIVE ForUnit(_, _, _, _)
ForUnit(units, k, multiplier, st) ==
    IF k > Len(units) THEN st
    ELSE LET match == Search(st.remaining, {units[k]}, TRUE)
         IN  IF match = 0 THEN ForUnit(units, k + 1, multiplier, st)
             ELSE ForUnit(units, k + 1, multiplier,
                      [total_seconds |->
                           st.total_seconds + st.remaining[match].n * multiplier,
                       remaining |-> RemoveAt(st.remaining, match, {units[k]}, TRUE),
                       found_unit |-> TRUE])

\* misc_utils.py: for units, multiplier in time_units.items()
RECURSIVE ForUnits(_, _)
ForUnits(g, st) ==
    IF g > Len(time_units) THEN st
    ELSE ForUnits(g + 1, ForUnit(time_units[g].units, 1,
                                 time_units[g].multiplier, st))

\* misc_utils.py str2time
str2time_misc_utils(input_string) ==
    IF Len(input_string) = 0 THEN RetFloat(0)
    ELSE LET s == Strip(LowerText(input_string))
             parts == Split(s)
             st == ForUnits(1, [total_seconds |-> 0, remaining |-> s,
                                found_unit |-> FALSE])
         IN  IF \E i \in DOMAIN s : s[i] = Colon
             THEN IF \E p \in DOMAIN parts : ~IsFloat(parts[p])
                  THEN LoggedZero(<<"Invalid time format: ">>)
                  ELSE IF Len(parts) \in {2, 3}
                       THEN RetFloat(ColonSeconds(parts))
                       ELSE LoggedZero(<<"Invalid time format: ",
                                         " - expected 2 or 3 parts">>)
             ELSE IF st.found_unit THEN RetFloat(st.total_seconds)
             ELSE IF IsFloat(s) THEN RetFloat(Float(s))
             ELSE LoggedZero(<<"Cannot parse time from: ">>)

\* main.py: patterns, in the order the loop tries them. The expressions end
\* in the alternations (hours?|hour?|hrs?|hr?|h), (minutes?|minute?|mins?|
\* min?|m) and (seconds?|second?|secs?|sec?|s), with no \b after them; on
\* the words of the model each alternation matches its five spellings, whole,
\* and no other word. There is no expression for days.
patterns ==
    <<[words |-> {"hours", "hour", "hrs", "hr", "h"}, multiplier |-> 3600],
      [words |-> {"minutes", "minute", "mins", "min", "m"}, multiplier |-> 60],
      [words |-> {"seconds", "second", "secs", "sec", "s"}, multiplier |-> 1]>>

\* main.py: for pattern, multiplier in patterns.items(): more than one
\* match is an error; one match is added and taken out
RECURSIVE ForPatterns(_, _)
ForPatterns(g, st) ==
    IF g > Len(patterns) \/ st.failed THEN st
    ELSE LET matches == Matches(st.input_string, patterns[g].words, FALSE)
             match == Search(st.input_string, patterns[g].words, FALSE)
         IN  IF Cardinality(matches) > 1
             THEN [st EXCEPT !.failed = TRUE]
             ELSE IF matches = {} THEN ForPatterns(g + 1, st)
             ELSE ForPatterns(g + 1,
                      [time_in_seconds |->
                           st.time_in_seconds
                           + st.input_string[match].n * patterns[g].multiplier,
                       input_string |-> RemoveAt(st.input_string, match,
                                                 patterns[g].words, FALSE),
                       filled |-> TRUE,
                       failed |-> FALSE])

\* main.py str2time
str2time_main(input_string) ==
    IF Len(input_string) = 0 \/ Len(Strip(input_string)) = 0 THEN RetFloat(0)
    ELSE LET s == Strip(LowerText(input_string))
             parts == Split(s)
             st == ForPatterns(1, [time_in_seconds |-> 0, input_string |-> s,
                                   filled |-> FALSE, failed |-> FALSE])
         IN  IF \E i \in DOMAIN s : s[i] = Colon
             THEN IF \E p \in DOMAIN parts : ~IsFloat(parts[p])
                  THEN error(<<"Invalid time: ", "could not convert string to float">>)
                  ELSE IF Len(parts) \in {2, 3}
                       THEN RetFloat(ColonSeconds(parts))
                       ELSE error(<<"Invalid time: ",
                                    "':' separator with parts instead of 2 or 3">>)
             ELSE IF st.failed
                  THEN error(<<"Invalid time: pattern appears multiple times">>)
             ELSE IF st.filled THEN RetFloat(st.time_in_seconds)
             ELSE IF IsFloat(st.input_string) THEN RetFloat(Float(st.input_string))
             ELSE error(<<"Invalid time: ", "could not convert string to float">>)

str2time(impl, input_string) ==
    IF impl = "misc_utils" THEN str2time_misc_utils(input_string)
    ELSE str2time_main(input_string)

\* time.gmtime(seconds), for seconds >= 0 given in tenths: the fraction is
\* dropped, and the whole seconds are counted from 1970-01-01 00:00:00
IsLeap(y) == (y % 4 = 0 /\ y % 100 # 0) \/ y % 400 = 0

DaysInMonth(y, m) ==
    IF m = 2 THEN (IF IsLeap(y) THEN 29 ELSE 28)
    ELSE IF m \in {4, 6, 9, 11} THEN 30 ELSE 31

\* the day of the month, days whole days after the first day of month m of
\* year y
RECURSIVE MDay(_, _, _)
MDay(days, y, m) ==
    IF days < DaysInMonth(y, m) THEN days + 1
    ELSE MDay(days - DaysInMonth(y, m),
              IF m = 12 THEN y + 1 ELSE y,
              IF m = 12 THEN 1 ELSE m + 1)

gmtime(seconds) ==
    LET whole == seconds \div 10
    IN  [tm_mday |-> MDay(whole \div 86400, 1970, 1),
         tm_hour |-> (whole % 86400) \div 3600,
         tm_min |-> (whole % 3600) \div 60,
         tm_sec |-> whole % 60]

\* a part as it would be if no_space were ignored
Part_blankKept(n, unit, no_space) == <<Num(n * 10), SP, Word(unit)>>

\* f"{n} {unit}", and the same with the blank taken out when no_space
Part(n, unit, no_space) ==
    IF no_space THEN <<Num(n * 10), Word(unit)>>
    ELSE <<Num(n * 10), SP, Word(unit)>>

\* " ".join(parts)
RECURSIVE Join(_)
Join(parts) ==
    IF Len(parts) = 0 THEN <<>>
    ELSE IF Len(parts) = 1 THEN parts[1]
    ELSE parts[1] \o <<SP>> \o Join(Tail(parts))

\* The three appends, the same in both copies: misc_utils.py tests `if hrs`
\* and main.py `if hours > 0`, which agree on the counts of the model, none
\* of them negative.
Parts(hrs, min, sec, no_space) ==
    (IF hrs > 0 THEN <<Part(hrs, "hr", no_space)>> ELSE <<>>)
    \o (IF min > 0 THEN <<Part(min, "min", no_space)>> ELSE <<>>)
    \o (IF sec > 0 \/ (hrs = 0 /\ min = 0)
        THEN <<Part(sec, "sec", no_space)>> ELSE <<>>)

\* misc_utils.py time2str: hrs = tm_hour + (tm_mday - 1) * 24
time2str_misc_utils(seconds, no_space) ==
    LET time_struct == gmtime(seconds)
        hrs == time_struct.tm_hour + (time_struct.tm_mday - 1) * 24
    IN  Join(Parts(hrs, time_struct.tm_min, time_struct.tm_sec, no_space))

\* main.py time2str: hours = int(time // 3600), minutes = int((time % 3600)
\* // 60), seconds = int(time % 60)
time2str_main(time, no_space) ==
    LET hours == time \div 36000
        minutes == (time % 36000) \div 600
        seconds == (time % 600) \div 10
    IN  Join(Parts(hours, minutes, seconds, no_space))

time2str(impl, seconds, no_space) ==
    IF impl = "misc_utils" THEN time2str_misc_utils(seconds, no_space)
    ELSE time2str_main(seconds, no_space)

---------------------------------------------------------------------------
(* The process calls str2time and time2str.                                 *)

MaxTerms == 2
MaxParts == 4

TimeImpls == {"misc_utils", "main"}

UnitWords ==
    UNION {{time_units[g].units[k] : k \in DOMAIN time_units[g].units} :
           g \in DOMAIN time_units}

\* What a text is made of. A number literal: 1, 1.5, 30, 120, in tenths,
\* alone or with a minus sign. A number and a unit: every spelling with 1,
\* some with 30 or 1.5, with a blank or without, with a minus sign, in upper
\* case. A word that is no unit.
Terms ==
    {<<Num(10)>>, <<Num(1200)>>, <<Minus, Num(10)>>, <<Word("not")>>,
     <<Minus, Num(10), SP, Word("min")>>, <<Num(10), SP, Word("HR")>>}
    \cup {<<Num(10), SP, Word(w)>> : w \in UnitWords}
    \cup {<<Num(300), SP, Word(w)>> : w \in {"hr", "min", "sec", "m"}}
    \cup {<<Num(15), SP, Word(w)>> : w \in {"days", "hours"}}
    \cup {<<Num(10), Word(w)>> : w \in {"hr", "min", "sec"}}

\* what stands between two colons
ColonParts ==
    {<<>>, <<Num(0)>>, <<Num(10)>>, <<Num(300)>>, <<Minus, Num(10)>>,
     <<SP, Num(15)>>, <<Word("not")>>}

RECURSIVE JoinColon(_)
JoinColon(parts) ==
    IF Len(parts) = 1 THEN parts[1]
    ELSE parts[1] \o <<Colon>> \o JoinColon(Tail(parts))

\* the texts with neither: nothing, blanks, words
OtherTexts ==
    {<<>>, <<SP>>, <<SP, SP>>, <<Word("not"), SP, Word("a"), SP, Word("time")>>}

\* the counts of seconds handed to time2str, in tenths: none of them
\* negative, up to more than a year
TimeValues ==
    {h * 36000 + m * 600 + s * 10 + f :
        h \in {0, 1, 23, 24, 25, 743, 744, 745, 8784},
        m \in {0, 1, 59}, s \in {0, 1, 59}, f \in {0, 5}}

NoText == <<>>

TimeInit ==
    /\ fs = ThreadWorld
    /\ environ = EmptyMap
    /\ pc = "idle"
    /\ call = NoCall
    /\ outcome = RetNone
    /\ envBefore = environ
    /\ thread = NoThreads
    /\ mergeLog = <<>>
    /\ tmpfs = {}
    /\ ctx = NoCtx
    /\ tasks = NoTasks
    /\ level = WARNING

\* str2time(input_string) runs to its end
Str2Time(impl, input_string) ==
    /\ call' = [op |-> "str2time", impl |-> impl, text |-> input_string,
                seconds |-> 0, no_space |-> FALSE]
    /\ outcome' = str2time(impl, input_string)

\* the process calls str2time on a text: up to MaxTerms terms with a blank
\* between them, or up to MaxParts parts with a colon between them, or one
\* of the other texts
CallStr2Time ==
    /\ pc = "idle"
    /\ \E impl \in TimeImpls :
          \/ \E n \in 1..MaxTerms : \E ts \in [1..n -> Terms] :
                Str2Time(impl, Join(ts))
          \/ \E n \in 2..MaxParts : \E ps \in [1..n -> ColonParts] :
                Str2Time(impl, JoinColon(ps))
          \/ \E input_string \in OtherTexts : Str2Time(impl, input_string)
    /\ pc' = "done"
    /\ UNCHANGED <<fs, environ, envBefore, thread, mergeLog,
                 tmpfs, ctx, tasks, level>>

\* the process calls time2str on a count of seconds
CallTime2Str ==
    /\ pc = "idle"
    /\ \E impl \in TimeImpls, seconds \in TimeValues, no_space \in BOOLEAN :
          /\ call' = [op |-> "time2str", impl |-> impl, text |-> NoText,
                      seconds |-> seconds, no_space |-> no_space]
          /\ outcome' = Ret(time2str(impl, seconds, no_space))
    /\ pc' = "done"
    /\ UNCHANGED <<fs, environ, envBefore, thread, mergeLog,
                 tmpfs, ctx, tasks, level>>

\* the process formats a whole count of seconds and parses the text back:
\* str2time(time2str(seconds))
CallStr2TimeOfTime2Str ==
    /\ pc = "idle"
    /\ \E impl \in TimeImpls, seconds \in {t \in TimeValues : t % 10 = 0} :
          /\ call' = [op |-> "str2time(time2str)", impl |-> impl,
                      text |-> time2str(impl, seconds, FALSE),
                      seconds |-> seconds, no_space |-> FALSE]
          /\ outcome' = str2time(impl, time2str(impl, seconds, FALSE))
    /\ pc' = "done"
    /\ UNCHANGED <<fs, environ, envBefore, thread, mergeLog,
                 tmpfs, ctx, tasks, level>>

TimeNext ==
    CallStr2Time \/ CallTime2Str \/ CallStr2TimeOfTime2Str \/ Continue

SpecTime == TimeInit /\ [][TimeNext]_vars

---------------------------------------------------------------------------
(* Properties of str2time and time2str.                                     *)

\* the text of a number, given in tenths
Literal(v) == IF v < 0 THEN <<Minus, Num(0 - v)>> ELSE <<Num(v)>>

\* the numbers written between the colons
ColonValues == {0 - 10, 0, 10, 300}

\* C13: for an input that contains ':' str2time reads H:M:S when there are
\* three parts and M:S when there are two, and returns H*3600 + M*60 + S,
\* respectively M*60 + S; "1:30:00" gives 5400.0 and "1:30" gives 90.0.
C13_ColonDialect ==
    (Ended("str2time") /\ \E i \in DOMAIN call.text : call.text[i] = Colon) =>
        /\ \A h, m, s \in ColonValues :
              call.text = JoinColon(<<Literal(h), Literal(m), Literal(s)>>)
                  => outcome = RetFloat(h * 3600 + m * 60 + s)
        /\ \A m, s \in ColonValues :
              call.text = JoinColon(<<Literal(m), Literal(s)>>)
                  => outcome = RetFloat(m * 60 + s)
        /\ call.text = <<Num(10), Colon, Num(300), Colon, Num(0)>>
              => outcome = RetFloat(54000)
        /\ call.text = <<Num(10), Colon, Num(300)>> => outcome = RetFloat(900)

\* both copies have read "1:30:00" and "1:30"
C13_Witness ==
    /\ Ended("str2time")
    /\ \/ /\ call.text = <<Num(10), Colon, Num(300), Colon, Num(0)>>
          /\ outcome = RetFloat(54000)
       \/ /\ call.text = <<Num(10), Colon, Num(300)>>
          /\ outcome = RetFloat(900)

\* the unit a spelling names, as the specification lists them
UnitOf(w) ==
    CASE w \in {"day", "days", "d"} -> "day"
      [] w \in {"hour", "hours", "hr", "hrs", "h"} -> "hour"
      [] w \in {"minute", "minutes", "min", "mins", "m"} -> "minute"
      [] w \in {"second", "seconds", "sec", "secs", "s"} -> "second"
      [] OTHER -> "none"

\* the seconds of a unit
UnitSeconds(u) ==
    CASE u = "day" -> 86400
      [] u = "hour" -> 3600
      [] u = "minute" -> 60
      [] u = "second" -> 1
      [] OTHER -> 0

\* the text is a list of "<number> <unit>" with one blank between any two
\* tokens
NumberUnitList(s) ==
    /\ Len(s) % 4 = 3
    /\ \A i \in DOMAIN s :
          CASE i % 4 = 1 -> s[i].t = "num"
            [] i % 4 = 3 -> s[i].t = "word" /\ UnitOf(s[i].w) # "none"
            [] OTHER -> s[i] = SP

\* where the units of such a list stand
UnitPositions(s) == {i \in DOMAIN s : i % 4 = 3}

\* no unit is named twice
UnitsOnce(s) ==
    \A i, j \in UnitPositions(s) : i # j => UnitOf(s[i].w) # UnitOf(s[j].w)

\* the sum of value * unit_seconds over the list, up to position i
RECURSIVE SumUpTo(_, _)
SumUpTo(s, i) ==
    IF i < 3 THEN 0
    ELSE SumUpTo(s, i - 4) + s[i - 2].n * UnitSeconds(UnitOf(s[i].w))

\* C14: for an input without ':' str2time returns the sum of value *
\* unit_seconds over the units found, for every recognised spelling of day,
\* hour, minute and second; "1 hr 30 min" gives 5400.0 and "1.5 days" gives
\* 129600.0; with no unit and the whole text a number, that number is the
\* count of seconds ("120" gives 120.0).
C14_UnitsDialect ==
    Ended("str2time") =>
        /\ (NumberUnitList(call.text) /\ UnitsOnce(call.text))
              => outcome = RetFloat(SumUpTo(call.text, Len(call.text)))
        /\ (Len(call.text) = 1 /\ call.text[1].t = "num")
              => outcome = RetFloat(call.text[1].n)
        /\ call.text = <<Num(15), SP, Word("days")>> => outcome = RetFloat(1296000)
        /\ call.text = <<Num(1200)>> => outcome = RetFloat(1200)
        /\ call.text = <<Num(10), SP, Word("hr"), SP, Num(300), SP, Word("min")>>
              => outcome = RetFloat(54000)

\* C14 for the copy of misc_utils.py alone
UnitsDialect_misc_utils == call.impl = "misc_utils" => C14_UnitsDialect

\* the text is empty or holds blanks only
Blank(s) == \A i \in DOMAIN s : s[i] = SP

\* how many colons the text holds
Colons(s) == Cardinality({i \in DOMAIN s : s[i] = Colon})

\* The text matches no dialect: it has colons but not two or three parts, or
\* it holds no number at all and is not blank.
NoDialect(s) ==
    \/ Colons(s) > 2
    \/ ~Blank(s) /\ \A i \in DOMAIN s : s[i].t # "num"

\* the call ended with an error the caller gets: an exception
Surfaced == outcome.kind \in {"exit", "raise"}

\* C15: str2time returns 0.0 as a default only for an empty or
\* whitespace-only input; every input that matches no dialect (a colon
\* string whose part count is not 2 or 3, a text such as "not a time") is
\* surfaced to the caller as an error.
C15_InvalidInputSurfaced ==
    Ended("str2time") =>
        /\ Blank(call.text) => outcome = RetFloat(0)
        /\ NoDialect(call.text) => Surfaced

\* the sum of value * unit_seconds over the positions P of a list
RECURSIVE SumOver(_, _)
SumOver(s, P) ==
    IF P = {} THEN 0
    ELSE LET i == CHOOSE j \in P : TRUE
         IN  s[i - 2].n * UnitSeconds(UnitOf(s[i].w)) + SumOver(s, P \ {i})

\* C16: each of the units day, hour, minute and second contributes at most
\* one matched number to the total, and a matched number is taken out with
\* its unit before the next pattern is tried, so that no number is counted
\* under two units: the value returned for a list of "<number> <unit>" is
\* the sum over some of its terms, no two of them of the same unit.
C16_OneNumberPerUnit ==
    (Ended("str2time") /\ NumberUnitList(call.text) /\ outcome.kind = "return") =>
        \E P \in SUBSET UnitPositions(call.text) :
            /\ \A i, j \in P : i # j => UnitOf(call.text[i].w) # UnitOf(call.text[j].w)
            /\ outcome.val = SumOver(call.text, P)

\* C17: an input in which the same unit appears more than once, in the same
\* or in different spellings ("5 min 10 min", "1 hour 2 hr"), is flagged as
\* invalid: the call ends with an error and the occurrences are not summed.
C17_RepeatedUnitRejected ==
    (Ended("str2time") /\ NumberUnitList(call.text) /\ ~UnitsOnce(call.text)) =>
        Surfaced

\* C18: every value str2time returns is non-negative, whether the input is
\* a colon string, a list of units or a bare number, and whether or not it
\* carries a minus sign.
C18_NonNegative ==
    (Ended("str2time") /\ outcome.kind = "return") => outcome.val >= 0

\* the number the text gives for a unit, 0 when the unit is not in the text
Shown(s, unit) ==
    IF \A i \in DOMAIN s : s[i] # Word(unit) THEN 0
    ELSE LET i == CHOOSE k \in DOMAIN s : s[k] = Word(unit)
             j == CHOOSE k \in 1..(i - 1) :
                      s[k].t = "num" /\ \A l \in (k + 1)..(i - 1) : s[l].t # "num"
         IN  s[j].n \div 10

\* the whole seconds of the count handed to time2str
WholeSeconds == call.seconds \div 10

\* C19: for every non-negative count of seconds time2str shows hours =
\* floor(seconds / 3600), with no cap at 24 and no wrap at a day or month
\* boundary, minutes = floor((seconds mod 3600) / 60) and sec =
\* floor(seconds mod 60); 3661 gives "1 hr 1 min 1 sec" and 61 gives
\* "1 min 1 sec".
C19_HoursMinutesSeconds ==
    Ended("time2str") =>
        /\ Shown(outcome.val, "hr") = WholeSeconds \div 3600
        /\ Shown(outcome.val, "min") = (WholeSeconds % 3600) \div 60
        /\ Shown(outcome.val, "sec") = WholeSeconds % 60
        /\ (call.seconds = 36610 /\ ~call.no_space) =>
              outcome.val = <<Num(10), SP, Word("hr"), SP, Num(10), SP, Word("min"),
                              SP, Num(10), SP, Word("sec")>>
        /\ (call.seconds = 610 /\ ~call.no_space) =>
              outcome.val = <<Num(10), SP, Word("min"), SP, Num(10), SP, Word("sec")>>

\* the text has a part for the unit
HasPart(s, unit) == \E i \in DOMAIN s : s[i] = Word(unit)

\* where the unit stands in the text
PartAt(s, unit) == CHOOSE i \in DOMAIN s : s[i] = Word(unit)

\* C20: time2str emits the hours part only if hours > 0, the minutes part
\* only if minutes > 0, and the seconds part exactly when the seconds
\* remainder is > 0 or hours and minutes are both zero, in the order hr, min,
\* sec; the output is not empty for any non-negative input, and
\* time2str(0) is "0 sec".
C20_PartsEmitted ==
    Ended("time2str") =>
        LET s == outcome.val
            hours == WholeSeconds \div 3600
            minutes == (WholeSeconds % 3600) \div 60
            seconds == WholeSeconds % 60
        IN  /\ HasPart(s, "hr") => hours > 0
            /\ HasPart(s, "min") => minutes > 0
            /\ HasPart(s, "sec") <=> (seconds > 0 \/ (hours = 0 /\ minutes = 0))
            /\ (HasPart(s, "hr") /\ HasPart(s, "min")) => PartAt(s, "hr") < PartAt(s, "min")
            /\ (HasPart(s, "hr") /\ HasPart(s, "sec")) => PartAt(s, "hr") < PartAt(s, "sec")
            /\ (HasPart(s, "min") /\ HasPart(s, "sec")) => PartAt(s, "min") < PartAt(s, "sec")
            /\ Len(s) > 0
            /\ (call.seconds = 0 /\ ~call.no_space) => s = <<Num(0), SP, Word("sec")>>

\* the text is "<number> <unit>" parts with one blank between the parts
SpacedParts(s) ==
    /\ Len(s) % 4 = 3
    /\ \A i \in DOMAIN s :
          CASE i % 4 = 1 -> s[i].t = "num"
            [] i % 4 = 3 -> s[i].t = "word"
            [] OTHER -> s[i] = SP

\* the text is "<number><unit>" parts with one blank between the parts
CompactParts(s) ==
    /\ Len(s) % 3 = 2
    /\ \A i \in DOMAIN s :
          CASE i % 3 = 1 -> s[i].t = "num"
            [] i % 3 = 2 -> s[i].t = "word"
            [] OTHER -> s[i] = SP

C22_NoBlankAtAll ==
    (Ended("time2str") /\ call.no_space) =>
        /\ \A i \in DOMAIN outcome.val : outcome.val[i] # SP
        /\ call.seconds = 610 =>
              outcome.val = <<Num(10), Word("min"), Num(10), Word("sec")>>

\* C23: for every non-negative whole count s of seconds,
\* str2time(time2str(s)) is s, and so time2str(str2time(time2str(s))) is
\* time2str(s): the formatted text is a fixed point of parse-then-format.
C23_RoundTrip ==
    Ended("str2time(time2str)") =>
        /\ outcome = RetFloat(call.seconds)
        /\ time2str(call.impl, outcome.val, FALSE) = call.text

---------------------------------------------------------------------------
(* The environment after a call of get_config that failed.                  *)

\* the call ended at step 4: a requested key is missing from every source
FailedOnMissingKey == outcome = error(MissingMsg(call.impl, call.config_type))

\* the variables the env files of the call define, the files that exist
MergedNames ==
    UNION {fs.envfiles[call.env_files[i]].vars :
           i \in {j \in DOMAIN call.env_files : fs.envfiles[call.env_files[j]].exists}}

---------------------------------------------------------------------------
(* Temporary files and directories: temporary_filename and                 *)
(* temporary_folder of os_helper/temp_utils.py (the ones the package       *)
(* exports) and temporary_folder of os_helper/main.py.                     *)
(*                                                                         *)
(* A path is the sequence of its components below the temporary            *)
(* directory of the system: <<n>> is the file or directory of the n-th     *)
(* block (its name is unique: time stamp, hash and random part), and       *)
(* <<n, f>> is the file f inside the directory <<n>>.                      *)

MaxBlocks == 3

TempImpls == {"temp_utils", "main"}

FileNames == {"a.txt", "b.txt"}

exists(tfs, path) == path \in tfs

unlink(tfs, path) == tfs \ {path}

\* A removal that takes the directory and leaves what is inside it.
rmtree_dirOnly(tfs, dir) == tfs \ {dir}

\* shutil.rmtree: the directory and everything below it.
rmtree(tfs, dir) == {p \in tfs : p[1] # dir[1]}

\* main.py, remove_directory.
remove_directory(tfs, folder_path) ==
    IF exists(tfs, folder_path) THEN rmtree(tfs, folder_path) ELSE tfs

\* What is on disk once a temporary_folder block has been left; the same
\* on a normal exit and on an exception: temp_utils.py runs its `finally`,
\* main.py its `finally: remove_directory(temp_dir)`.
temporary_folder_exit(impl, tfs, temp_dir, delete) ==
    IF impl = "temp_utils"
    THEN IF delete /\ exists(tfs, temp_dir) THEN rmtree(tfs, temp_dir) ELSE tfs
    ELSE remove_directory(tfs, temp_dir)

\* What is on disk once a temporary_filename block of temp_utils.py has
\* been left.  The file was opened with
\*   tempfile.NamedTemporaryFile(..., delete=not delete)
\* so leaving the `with` removes it exactly when the caller passed
\* delete=False; the `finally` then unlinks it when delete is True.
temporary_filename_exit(tfs, temp_path, delete) ==
    LET closed == IF ~delete THEN unlink(tfs, temp_path) ELSE tfs
    IN  IF delete /\ exists(closed, temp_path)
        THEN unlink(closed, temp_path)
        ELSE closed

\* How the block ends for its caller.  temp_utils.py catches the exception
\* of the body (`except Exception as e: error(...)`) and error() raises
\* SystemExit; main.py lets the exception through.
ExitOutcome(impl, how) ==
    IF how = "normal" THEN "normal"
    ELSE IF impl = "temp_utils" THEN "SystemExit" ELSE "Exception"

\* `with temporary_folder(...)`: mkdtemp creates the directory, which is
\* yielded.  main.py's copy has no delete parameter and always removes.
EnterFolder ==
    /\ ctx.pos \in {"out", "left"}
    /\ ctx.name < MaxBlocks
    /\ \E impl \in TempImpls, delete \in BOOLEAN :
          /\ impl = "main" => delete
          /\ ctx' = [op |-> "temporary_folder", impl |-> impl,
                     delete |-> delete, pos |-> "body",
                     name |-> ctx.name + 1, how |-> "none", made |-> {}]
    /\ tmpfs' = tmpfs \cup {<<ctx.name + 1>>}
    /\ UNCHANGED <<fs, environ, pc, call, outcome, envBefore, thread,
                   mergeLog, tasks, level>>

\* `with temporary_filename(...)`: NamedTemporaryFile creates the file,
\* whose path is yielded.
EnterFilename ==
    /\ ctx.pos \in {"out", "left"}
    /\ ctx.name < MaxBlocks
    /\ \E delete \in BOOLEAN :
          ctx' = [op |-> "temporary_filename", impl |-> "temp_utils",
                  delete |-> delete, pos |-> "body",
                  name |-> ctx.name + 1, how |-> "none", made |-> {}]
    /\ tmpfs' = tmpfs \cup {<<ctx.name + 1>>}
    /\ UNCHANGED <<fs, environ, pc, call, outcome, envBefore, thread,
                   mergeLog, tasks, level>>

\* The body of a temporary_folder block creates a file in the directory.
\* ctx.made remembers what the body created.
BodyCreates ==
    /\ ctx.pos = "body"
    /\ ctx.op = "temporary_folder"
    /\ exists(tmpfs, <<ctx.name>>)
    /\ \E f \in FileNames :
          /\ f \notin ctx.made
          /\ tmpfs' = tmpfs \cup {<<ctx.name, f>>}
          /\ ctx' = [ctx EXCEPT !.made = @ \cup {f}]
    /\ UNCHANGED <<fs, environ, pc, call, outcome, envBefore, thread,
                   mergeLog, tasks, level>>

\* The block is left: its body ends, or raises an exception.
Leave ==
    /\ ctx.pos = "body"
    /\ \E how \in {"normal", "Exception"} :
          ctx' = [ctx EXCEPT !.pos = "left",
                             !.how = ExitOutcome(ctx.impl, how)]
    /\ tmpfs' = IF ctx.op = "temporary_folder"
                THEN temporary_folder_exit(ctx.impl, tmpfs, <<ctx.name>>,
                                           ctx.delete)
                ELSE temporary_filename_exit(tmpfs, <<ctx.name>>, ctx.delete)
    /\ UNCHANGED <<fs, environ, pc, call, outcome, envBefore, thread,
                   mergeLog, tasks, level>>

TempInit ==
    /\ fs = ThreadWorld
    /\ environ = EmptyMap
    /\ pc = "idle"
    /\ call = NoCall
    /\ outcome = RetNone
    /\ envBefore = environ
    /\ thread = NoThreads
    /\ mergeLog = <<>>
    /\ tmpfs = {}
    /\ ctx = NoCtx
    /\ tasks = NoTasks
    /\ level = WARNING

TempNext == EnterFolder \/ EnterFilename \/ BodyCreates \/ Leave

SpecTemp == TempInit /\ [][TempNext]_vars

---------------------------------------------------------------------------
(* Claims about the temporary files and directories (SpecTemp).            *)

\* C24: inside a `with temporary_folder()` block (delete=True) the yielded
\* directory exists, and so do the files the body has created in it; once
\* the block has been left, normally or by an exception raised in the
\* body, neither the directory nor anything created in it exists.
C24_FolderGoneAfterBlock ==
    (ctx.op = "temporary_folder" /\ ctx.delete) =>
        /\ ctx.pos = "body" =>
              /\ exists(tmpfs, <<ctx.name>>)
              /\ \A f \in ctx.made : exists(tmpfs, <<ctx.name, f>>)
        /\ ctx.pos = "left" =>
              /\ ~exists(tmpfs, <<ctx.name>>)
              /\ \A p \in tmpfs : p[1] # ctx.name

\* A block that created files in its directory and was left by an
\* exception raised in its body.
C24_Witness ==
    /\ ctx.op = "temporary_folder"
    /\ ctx.delete
    /\ ctx.pos = "left"
    /\ ctx.how # "normal"
    /\ ctx.made = FileNames

\* C25: the delete flag of temporary_filename decides whether the file
\* survives the block: with delete=True the file exists inside the block
\* and not after it; with delete=False the file still exists after the
\* block has been left.
C25_DeleteFlagDecides ==
    ctx.op = "temporary_filename" =>
        /\ ctx.pos = "body" => exists(tmpfs, <<ctx.name>>)
        /\ ctx.pos = "left" => (exists(tmpfs, <<ctx.name>>) <=> ~ctx.delete)

---------------------------------------------------------------------------
(* ProgressTask of os_helper/progress_bar.py: run_with_tqdm starts a       *)
(* progress thread (_run_progress_bar) and a task thread (_run_task) and   *)
(* joins them.  Each object is run by a caller of its own, so the runs of  *)
(* two objects overlap; the root logger is shared by all of them.  A step  *)
(* is one access to the shared state: the attribute task_complete, the     *)
(* level of the root logger, the counter of the bar.                       *)

MaxSteps == 2

MaxRuns == 2

\* progress_threshold, in hundredths: __init__ accepts 0 < p < 1
Thresholds == {40, 90}

\* threshold_steps = int(self.total_steps * self.progress_threshold)
threshold_steps(t) == (t.total_steps * t.progress_threshold) \div 100

Update(o, t) ==
    /\ tasks' = [tasks EXCEPT ![o] = t]
    /\ UNCHANGED <<fs, environ, pc, call, outcome, envBefore, thread,
                   mergeLog, tmpfs, ctx>>

\* run_with_tqdm is called: the two Thread objects are created.  The bar
\* of the run is a new one and counts from 0.
Run(o) ==
    /\ tasks[o].main \in {"idle", "returned"}
    /\ tasks[o].todo > 0
    /\ Update(o, [tasks[o] EXCEPT !.todo = @ - 1, !.runs = @ + 1,
                                  !.main = "created",
                                  !.progress = "none", !.i = 0, !.n = 0,
                                  !.task = "none", !.logging_level = "none",
                                  !.raised = FALSE])
    /\ UNCHANGED level

\* progress_thread.start()
StartProgress(o) ==
    /\ tasks[o].main = "created"
    /\ Update(o, [tasks[o] EXCEPT !.main = "progress_started",
                                  !.progress = "loop"])
    /\ UNCHANGED level

\* task_thread.start()
StartTask(o) ==
    /\ tasks[o].main = "progress_started"
    /\ Update(o, [tasks[o] EXCEPT !.main = "both_started",
                                  !.task = "start"])
    /\ UNCHANGED level

\* for _ in range(threshold_steps): time.sleep(...); progress.update(1)
ProgressStep(o) ==
    /\ tasks[o].progress = "loop"
    /\ tasks[o].i < threshold_steps(tasks[o])
    /\ Update(o, [tasks[o] EXCEPT !.i = @ + 1, !.n = @ + 1])
    /\ UNCHANGED level

\* while not self.task_complete: time.sleep(0.1)
\* One evaluation of the test: the attribute does not exist
\* (AttributeError ends the thread), or it is True (the loop is left), or
\* it is False (the thread sleeps and tests again).
ProgressWait(o) ==
    /\ tasks[o].progress = "loop"
    /\ tasks[o].i = threshold_steps(tasks[o])
    /\ Update(o, IF ~tasks[o].has
                 THEN [tasks[o] EXCEPT !.progress = "AttributeError"]
                 ELSE IF tasks[o].task_complete
                      THEN [tasks[o] EXCEPT !.progress = "complete"]
                      ELSE tasks[o])
    /\ UNCHANGED level

\* progress.n = self.total_steps; progress.refresh()
ProgressSet(o) ==
    /\ tasks[o].progress = "complete"
    /\ Update(o, [tasks[o] EXCEPT !.n = tasks[o].total_steps,
                                  !.progress = "done"])
    /\ UNCHANGED level

\* self.task_complete = False: the attribute exists from here on
TaskCreatesFlag(o) ==
    /\ tasks[o].task = "start"
    /\ Update(o, [tasks[o] EXCEPT !.has = TRUE, !.task_complete = FALSE,
                                  !.task = "flagged"])
    /\ UNCHANGED level

\* logging_level = logging.getLogger().level
TaskReadsLevel(o) ==
    /\ tasks[o].task = "flagged"
    /\ Update(o, [tasks[o] EXCEPT !.logging_level = level,
                                  !.task = "saved"])
    /\ UNCHANGED level

\* logging.getLogger().setLevel(logging.CRITICAL + 1)
TaskSilences(o) ==
    /\ tasks[o].task = "saved"
    /\ level' = CRITICAL_plus_1
    /\ Update(o, [tasks[o] EXCEPT !.task = "running"])

\* self.task() ends: it returns, or it raises
TaskEnds(o) ==
    /\ tasks[o].task = "running"
    /\ \E raised \in BOOLEAN :
          Update(o, [tasks[o] EXCEPT !.raised = raised, !.task = "finally"])
    /\ UNCHANGED level

\* finally: logging.getLogger().setLevel(logging_level)
TaskRestores(o) ==
    /\ tasks[o].task = "finally"
    /\ level' = tasks[o].logging_level
    /\ Update(o, [tasks[o] EXCEPT !.task = "restored"])

\* finally: self.task_complete = True; the thread ends (by the exception of
\* the task when it raised)
TaskCompletes(o) ==
    /\ tasks[o].task = "restored"
    /\ Update(o, [tasks[o] EXCEPT !.task_complete = TRUE, !.task = "done"])
    /\ UNCHANGED level

\* progress_thread.join(): returns once the thread has ended, also when an
\* exception ended it
JoinProgress(o) ==
    /\ tasks[o].main = "both_started"
    /\ tasks[o].progress \in {"done", "AttributeError"}
    /\ Update(o, [tasks[o] EXCEPT !.main = "progress_joined"])
    /\ UNCHANGED level

\* task_thread.join(); run_with_tqdm returns
JoinTask(o) ==
    /\ tasks[o].main = "progress_joined"
    /\ tasks[o].task = "done"
    /\ Update(o, [tasks[o] EXCEPT !.main = "returned"])
    /\ UNCHANGED level

ProgressInit ==
    /\ fs = ThreadWorld
    /\ environ = EmptyMap
    /\ pc = "idle"
    /\ call = NoCall
    /\ outcome = RetNone
    /\ envBefore = environ
    /\ thread = NoThreads
    /\ mergeLog = <<>>
    /\ tmpfs = {}
    /\ ctx = NoCtx
    /\ tasks \in [Objects ->
                    {ProgressTask(total_steps, progress_threshold, todo) :
                        total_steps \in 1..MaxSteps,
                        progress_threshold \in Thresholds,
                        todo \in 0..MaxRuns}]
    /\ level = WARNING

ProgressNext ==
    \E o \in Objects :
        \/ Run(o)
        \/ StartProgress(o)
        \/ StartTask(o)
        \/ ProgressStep(o)
        \/ ProgressWait(o)
        \/ ProgressSet(o)
        \/ TaskCreatesFlag(o)
        \/ TaskReadsLevel(o)
        \/ TaskSilences(o)
        \/ TaskEnds(o)
        \/ TaskRestores(o)
        \/ TaskCompletes(o)
        \/ JoinProgress(o)
        \/ JoinTask(o)

SpecProgress == ProgressInit /\ [][ProgressNext]_vars

\* The scheduler lets every started thread run again and again, and the
\* sleeps of the progress thread are finite: each step of a thread that
\* stays possible is taken.  Nothing obliges the program to call
\* run_with_tqdm, nor the task function to end.
ProgressFairness ==
    \A o \in Objects :
        /\ WF_vars(StartProgress(o))
        /\ WF_vars(StartTask(o))
        /\ WF_vars(ProgressStep(o))
        /\ WF_vars(ProgressWait(o))
        /\ WF_vars(ProgressSet(o))
        /\ WF_vars(TaskCreatesFlag(o))
        /\ WF_vars(TaskReadsLevel(o))
        /\ WF_vars(TaskSilences(o))
        /\ WF_vars(TaskRestores(o))
        /\ WF_vars(TaskCompletes(o))
        /\ WF_vars(JoinProgress(o))
        /\ WF_vars(JoinTask(o))

\* One object is run, the other one is constructed and left alone.
OneObjectInit ==
    /\ ProgressInit
    /\ tasks["B"].todo = 0

SpecProgressFair ==
    OneObjectInit /\ [][ProgressNext]_vars /\ ProgressFairness

---------------------------------------------------------------------------
(* Claims about ProgressTask (SpecProgress, SpecProgressFair).             *)

\* the task function of the current run of t has ended
TaskFunctionEnded(t) == t.task \in {"finally", "restored", "done"}

\* C26: in every run of a ProgressTask, the first and any later one on the
\* same object, the bar advances on its own only up to
\* int(total_steps * progress_threshold) steps, which is below total_steps,
\* and its counter is set to total_steps only after the task function of
\* that run has finished.
C26_FullOnlyAfterTask ==
    \A o \in Objects :
        LET t == tasks[o]
        IN  t.runs > 0 =>
               /\ threshold_steps(t) < t.total_steps
               /\ t.progress \in {"loop", "complete", "AttributeError"} =>
                     t.n <= threshold_steps(t)
               /\ t.n = t.total_steps => TaskFunctionEnded(t)

\* C28: in every interleaving of the progress thread and the task thread,
\* the wait loop never reads task_complete before the attribute exists.
C28_FlagExistsWhenRead ==
    \A o \in Objects : tasks[o].progress # "AttributeError"

\* no run is in progress, and at least one has been made
EveryRunFinished ==
    /\ \A o \in Objects : tasks[o].main \in {"idle", "returned"}
    /\ \E o \in Objects : tasks[o].main = "returned"

\* C30: once every run has finished, the level of the root logger is the
\* one it had before the first run started, also when the task raised and
\* when the runs of two objects overlapped.
C30_LevelRestored ==
    EveryRunFinished => level = WARNING

\* The part of the statement below that is about termination alone: in each
\* run, once the task function has ended, run_with_tqdm returns with
\* task_complete set and both threads joined.
ReturnsWhenTaskEnds ==
    \A o \in Objects : \A r \in 1..MaxRuns :
        (tasks[o].runs = r /\ TaskFunctionEnded(tasks[o]))
            ~> (/\ tasks[o].runs = r
                /\ tasks[o].main = "returned"
                /\ tasks[o].task_complete)

\* C29: run_with_tqdm returns whenever the task function ends, normally or
\* by raising: in each run, once the task function has ended, the run comes
\* to the state where both threads are joined and the bar stands at
\* total_steps.
C29_ReturnsWithFullBar ==
    \A o \in Objects : \A r \in 1..MaxRuns :
        (tasks[o].runs = r /\ TaskFunctionEnded(tasks[o]))
            ~> (/\ tasks[o].runs = r
                /\ tasks[o].main = "returned"
                /\ tasks[o].task_complete
                /\ tasks[o].n = tasks[o].total_steps)

====
